---- MODULE Spec2Model ----
(***************************************************************************)
(* The extension bridge of py-build-cmake's example modules: a Python      *)
(* callable `add` backed by a native integer addition, in five binding     *)
(* variants (two raw C API modules, one nanobind module, two pybind11      *)
(* modules).  The model covers module initialisation and the per-call      *)
(* protocol: arity check, left-to-right argument conversion, the native    *)
(* addition, the encoding of the result and the return to the host.        *)
(*                                                                         *)
(* Native integer widths are scaled down (LongBits for C `long`,           *)
(* Int32Bits for `int32_t`/`int`) so that every in-range pair, every       *)
(* overflowing pair and every out-of-range argument can be enumerated.     *)
(***************************************************************************)
EXTENDS Integers, Sequences, FiniteSets, TLC

\* ------------------------------------------------------------------ bounds
LongBits == 4
Int32Bits == 3
MaxArgs == 3
MaxInit == 2
NThreads == 2

\* ---------------------------------------------------------------- variants
Variants == {"minimal", "minimal_ext", "nanobind", "pybind11", "pybind11_src"}

RawCAPI(v) == v \in {"minimal", "minimal_ext"}

\* Width of the declared native argument/result type of the variant.
NativeBits(v) == IF RawCAPI(v) THEN LongBits ELSE Int32Bits

MinOf(bits) == -(2 ^ (bits - 1))
MaxOf(bits) == 2 ^ (bits - 1) - 1
Range(bits) == MinOf(bits)..MaxOf(bits)
NativeRange(v) == Range(NativeBits(v))

\* Two's-complement reduction of n to a signed integer of the given width.
Wrap(bits, n) == ((n + 2 ^ (bits - 1)) % (2 ^ bits)) - 2 ^ (bits - 1)

\* -------------------------------------------------------------- host values
\* A host (Python) value: an int of any magnitude, a str, a float, or the
\* NULL pointer a C function returns to signal an error.
PyInt(n) == [t |-> "int", v |-> n]
Str == [t |-> "str", v |-> 0]        \* the string "x"
Flt == [t |-> "float", v |-> 2]      \* the float 2.5; v is its integer part
NULL == [t |-> "NULL", v |-> 0]

NoExc == "none"

\* Host values offered to a variant: every int from one below to one above
\* the variant's native range, a str and a float.
HostVals(v) ==
    {PyInt(n) : n \in (MinOf(NativeBits(v)) - 1)..(MaxOf(NativeBits(v)) + 1)}
        \cup {Str, Flt}

\* Values of surplus positional arguments (positions 3 and up).
ExtraVals == {PyInt(0), Str}

Tuples(S, n) == [1..n -> S]

\* The argument tuples the host may present: any tuple of at most two host
\* values, and any pair followed by up to MaxArgs - 2 surplus arguments.
ArgTuples(v) ==
    (UNION {Tuples(HostVals(v), n) : n \in 0..2})
        \cup {p \o e : p \in Tuples(HostVals(v), 2),
                       e \in UNION {Tuples(ExtraVals, k) : k \in 1..(MaxArgs - 2)}}

\* Argument tuples used when calls interleave.
ConcArgs(v) ==
    { <<PyInt(1)>>,
      <<PyInt(1), PyInt(2)>>,
      <<PyInt(-1), PyInt(1)>>,
      <<Str, PyInt(1)>>,
      <<PyInt(MaxOf(NativeBits(v)) + 1), PyInt(0)>>,
      <<PyInt(MaxOf(NativeBits(v))), PyInt(1)>> }

\* ------------------------------------------------------ module registration
Absent == "<absent>"
MODULE_NAME == "MODULE_NAME"      \* build-time macro
VERSION_INFO == "VERSION_INFO"    \* build-time macro

docstring ==
    "Simple module that adds integers. Based loosely on https://docs.python.org/3/extending/extending.html"

AddModuleMethods ==
    << [name |-> "add", impl |-> "add_module_add", conv |-> "METH_VARARGS",
        argnames |-> <<>>, doc |-> "Add two integers."] >>

add_module ==
    [name |-> "_add_module", doc |-> docstring, size |-> -1,
     methods |-> AddModuleMethods]

\* PyModule_Create(&def): a new module object carrying the definition's name,
\* documentation and method table; no other attribute is set.
PyModule_Create(def) ==
    [name |-> def.name, doc |-> def.doc, version |-> Absent,
     methods |-> def.methods]

PyInit__add_module == PyModule_Create(add_module)

\* The module object handed to the body of PYBIND11_MODULE / NB_MODULE.
EmptyModule == [name |-> MODULE_NAME, doc |-> "", version |-> Absent, methods |-> <<>>]

SetDoc(m, d) == [m EXCEPT !.doc = d]
SetVersion(m, s) == [m EXCEPT !.version = s]
Def(m, name, impl, argnames, d) ==
    [m EXCEPT !.methods = Append(@, [name |-> name, impl |-> impl, conv |-> "dispatcher",
                                      argnames |-> argnames, doc |-> d])]

NB_MODULE_NoVersion(m) ==
    Def(SetDoc(m, "Module for adding integers"),
        "add", "add", <<"a", "b">>, "Adds two integers")

NB_MODULE(m) ==
    Def(SetVersion(SetDoc(m, "Module for adding integers"), VERSION_INFO),
        "add", "add", <<"a", "b">>, "Adds two integers")

PYBIND11_MODULE_ext(m) ==
    Def(SetVersion(SetDoc(m, "Module for adding integers"), VERSION_INFO),
        "add", "add", <<"a", "b">>, "Adds two integers")

PYBIND11_MODULE_src(m) ==
    Def(SetVersion(SetDoc(m, "Module for adding integers"), VERSION_INFO),
        "add", "lambda", <<"a", "b">>, "Adds two integers")

\* The module object one run of the variant's initialisation entry point yields.
ModuleInit(v) ==
    CASE v = "minimal" -> PyInit__add_module
      [] v = "minimal_ext" -> PyInit__add_module
      [] v = "nanobind" -> NB_MODULE(EmptyModule)
      [] v = "pybind11" -> PYBIND11_MODULE_ext(EmptyModule)
      [] v = "pybind11_src" -> PYBIND11_MODULE_src(EmptyModule)

\* Mutant: re-initialisation runs the body again on the module object of the
\* first initialisation instead of on a fresh one.
RegisterModuleShared(mods, v) ==
    IF mods = <<>> THEN <<ModuleInit(v)>>
    ELSE Append([mods EXCEPT ![1].methods = @ \o ModuleInit(v).methods],
                [mods[1] EXCEPT !.methods = @ \o ModuleInit(v).methods])

\* Each call of the entry point creates a module object of its own.
RegisterModule(mods, v) == Append(mods, ModuleInit(v))

HasAdd(m) == \E i \in 1..Len(m.methods) : m.methods[i].name = "add"

\* --------------------------------------------------------- native functions
\* Mutant: subtraction instead of addition.
SignedSub(bits, a, b) ==
    IF a - b \in Range(bits) THEN {a - b} ELSE {Wrap(bits, a - b), Wrap(LongBits, a - b)}

\* C's `a + b` on a signed integer type of the given width, as the set of
\* values the expression may yield.  A representable sum is the sum.  Signed
\* overflow is undefined behaviour: the builds produce either the sum reduced
\* to the operand width (an add in a register of that width) or the sum
\* computed in the wider `long` register that is handed to the encoder.
SignedAdd(bits, a, b) ==
    IF a + b \in Range(bits) THEN {a + b} ELSE {Wrap(bits, a + b), Wrap(LongBits, a + b)}

add_minimal(a, b) == SignedAdd(LongBits, a, b)
add_ext(a, b) == SignedAdd(LongBits, a, b)
add_nanobind(a, b) == SignedAdd(Int32Bits, a, b)
add_pybind11(a, b) == SignedAdd(Int32Bits, a, b)
add_lambda(a, b) == SignedAdd(Int32Bits, a, b)

NativeAddOf(v, a, b) ==
    CASE v = "minimal" -> add_minimal(a, b)
      [] v = "minimal_ext" -> add_ext(a, b)
      [] v = "nanobind" -> add_nanobind(a, b)
      [] v = "pybind11" -> add_pybind11(a, b)
      [] v = "pybind11_src" -> add_lambda(a, b)

\* PyLong_FromLong / the int caster's cast: every native value has a host int.
PyLong_FromLong(r) == PyInt(r)

\* ------------------------------------------------------ argument conversion
Converted(n) == [ok |-> TRUE, val |-> n, exc |-> NoExc]
Rejected(e) == [ok |-> FALSE, val |-> 0, exc |-> e]

\* Mutant: a float is truncated to its integer part instead of being rejected.
ConvertLongTruncFloat(x) ==
    IF x.t = "int"
    THEN IF x.v \in Range(LongBits) THEN Converted(x.v) ELSE Rejected("OverflowError")
    ELSE IF x.t = "float" THEN Converted(x.v) ELSE Rejected("TypeError")

\* Mutant: an out-of-range int is reduced modulo the width (format unit "k"
\* style conversion without overflow checking).
ConvertLongNoCheck(x) ==
    IF x.t = "int" THEN Converted(Wrap(LongBits, x.v)) ELSE Rejected("TypeError")

\* Format unit "l" of PyArg_ParseTuple: a Python int that fits a C long is
\* converted; one that does not raises OverflowError; anything that is not an
\* int raises TypeError.
ConvertLong(x) ==
    IF x.t = "int"
    THEN IF x.v \in Range(LongBits) THEN Converted(x.v) ELSE Rejected("OverflowError")
    ELSE Rejected("TypeError")

\* The int32_t / int argument caster of pybind11 and nanobind: a Python int
\* that fits is loaded; every other value fails to load and the dispatcher
\* raises TypeError (incompatible function arguments).
CastInt32(x) ==
    IF x.t = "int" /\ x.v \in Range(Int32Bits) THEN Converted(x.v) ELSE Rejected("TypeError")

Convert(v, x) == IF RawCAPI(v) THEN ConvertLong(x) ELSE CastInt32(x)

\* Mutant: surplus arguments are accepted and ignored.
ArityAtLeast(n) == n >= 2

\* "ll" / (a, b): exactly two positional arguments.
ArityOK(n) == n = 2

\* Mutant: arguments are converted right to left.
DecodeOrderReversed(i) == 3 - i

\* The argument position converted at the i-th conversion step.
DecodeOrder(i) == i

\* ------------------------------------------------------------- call frames
Threads == 1..NThreads
MainThread == CHOOSE t \in Threads : \A u \in Threads : t <= u

IdleFrame ==
    [pc |-> "idle", args |-> <<>>, idx |-> 0, dec |-> <<>>, res |-> <<>>,
     ret |-> NULL, exc |-> NoExc, trace |-> <<>>]

\* Trace events of one invocation.
EvDecode(pos, ok) == [ev |-> "decode", p |-> pos, q |-> IF ok THEN 1 ELSE 0]
EvNative(a, b) == [ev |-> "native", p |-> a, q |-> b]
EvEncode(r) == [ev |-> "encode", p |-> r, q |-> 0]

\* Entry into the wrapper: fresh locals (`long a, b;` hold nothing yet); the
\* thread's error indicator is whatever the host left in it.
EnterFrame(f, args) ==
    [f EXCEPT !.pc = "parse", !.args = args, !.idx = 1, !.dec = <<>>,
              !.res = <<>>, !.ret = NULL, !.trace = <<>>]

\* `return NULL` with the exception e set.
Fail(f, e) == [f EXCEPT !.pc = "done", !.exc = e, !.ret = NULL]

\* Mutant: the decoded arguments live in storage shared by all invocations
\* (`static long a, b;`): a store is seen by every frame that has already
\* decoded that position.
StoreDecodedStatic(fr, t, i, n) ==
    [u \in DOMAIN fr |->
        IF u = t THEN [fr[u] EXCEPT !.dec = Append(@, n)]
        ELSE IF fr[u].pc \in {"decode", "native"} /\ Len(fr[u].dec) >= i
             THEN [fr[u] EXCEPT !.dec[i] = n]
             ELSE fr[u]]

\* The i-th decoded argument is stored in the invocation's own locals.
StoreDecoded(fr, t, i, n) == [fr EXCEPT ![t].dec = Append(@, n)]

\* Mutant: the error indicator of a finished call is left set.
DiscardFrameStale(f) == [IdleFrame EXCEPT !.exc = f.exc]

\* The wrapper has returned: the host takes the outcome (raising the
\* exception, which clears the indicator) and the frame is gone.
DiscardFrame(f) == IdleFrame

\* ------------------------------------------------------------------- state
VARIABLES variant, modules, frames, failedBefore

vars == <<variant, modules, frames, failedBefore>>

Init ==
    /\ variant \in Variants
    /\ modules = <<>>
    /\ frames = [t \in Threads |-> IdleFrame]
    /\ failedBefore = FALSE

AllIdle == \A t \in Threads : frames[t].pc = "idle"

\* The host runs the module initialisation entry point.
Register ==
    /\ Len(modules) < MaxInit
    /\ modules' = RegisterModule(modules, variant)
    /\ UNCHANGED <<variant, frames, failedBefore>>

\* The host calls `add` of the imported module with the tuple args.
CallAdd(t, args) ==
    /\ frames[t].pc = "idle"
    /\ Len(modules) >= 1
    /\ HasAdd(modules[Len(modules)])
    /\ frames' = [frames EXCEPT ![t] = EnterFrame(@, args)]
    /\ UNCHANGED <<variant, modules, failedBefore>>

\* The number of arguments is checked before any of them is converted.
ParseArity(t) ==
    /\ frames[t].pc = "parse"
    /\ frames' = [frames EXCEPT ![t] =
                    IF ArityOK(Len(@.args)) THEN [@ EXCEPT !.pc = "decode"]
                    ELSE Fail(@, "TypeError")]
    /\ UNCHANGED <<variant, modules, failedBefore>>

\* One argument is converted; the first failure ends the call.
ParseArg(t) ==
    /\ frames[t].pc = "decode"
    /\ LET f == frames[t]
           pos == DecodeOrder(f.idx)
           c == Convert(variant, f.args[pos])
           logged == [frames EXCEPT ![t].trace = Append(@, EvDecode(pos, c.ok))]
       IN frames' =
            IF c.ok
            THEN [StoreDecoded(logged, t, f.idx, c.val) EXCEPT
                     ![t].idx = f.idx + 1,
                     ![t].pc = IF f.idx = 2 THEN "native" ELSE "decode"]
            ELSE [logged EXCEPT ![t] = Fail(@, c.exc)]
    /\ UNCHANGED <<variant, modules, failedBefore>>

\* The native addition runs on the decoded arguments.
NativeAdd(t) ==
    /\ frames[t].pc = "native"
    /\ \E r \in NativeAddOf(variant, frames[t].dec[1], frames[t].dec[2]) :
          frames' = [frames EXCEPT
                        ![t].res = <<r>>,
                        ![t].pc = "encode",
                        ![t].trace = Append(@, EvNative(frames[t].dec[1], frames[t].dec[2]))]
    /\ UNCHANGED <<variant, modules, failedBefore>>

\* The native result is encoded as a host int and returned.
EncodeResult(t) ==
    /\ frames[t].pc = "encode"
    /\ frames' = [frames EXCEPT
                    ![t].ret = PyLong_FromLong(frames[t].res[1]),
                    ![t].pc = "done",
                    ![t].trace = Append(@, EvEncode(frames[t].res[1]))]
    /\ UNCHANGED <<variant, modules, failedBefore>>

\* Control is back in the host.
ReturnToHost(t) ==
    /\ frames[t].pc = "done"
    /\ failedBefore' = (failedBefore \/ frames[t].exc # NoExc)
    /\ frames' = [frames EXCEPT ![t] = DiscardFrame(@)]
    /\ UNCHANGED <<variant, modules>>

Step(t) ==
    \/ ParseArity(t)
    \/ ParseArg(t)
    \/ NativeAdd(t)
    \/ EncodeResult(t)
    \/ ReturnToHost(t)

\* One host thread: a call starts only when the previous one has returned.
Next ==
    \/ Register
    \/ (AllIdle /\ Len(modules) >= 1 /\ \E args \in ArgTuples(variant) : CallAdd(MainThread, args))
    \/ \E t \in Threads : Step(t)

Spec == Init /\ [][Next]_vars

\* Several host threads: calls interleave statement by statement.
NextConc ==
    \/ Register
    \/ \E t \in Threads : \E args \in ConcArgs(variant) : CallAdd(t, args)
    \/ \E t \in Threads : Step(t)

SpecConc == Init /\ [][NextConc]_vars

\* ------------------------------------------------------ vocabulary of claims
Called(f) == f.pc # "idle"
Done(f) == f.pc = "done"
NativeRan(f) == \E i \in 1..Len(f.trace) : f.trace[i].ev = "native"

\* x is an integer representable in the variant's declared native type.
Fits(v, x) == x.t = "int" /\ x.v \in NativeRange(v)

\* A call with exactly two representable integers whose sum is representable.
ValidCall(v, f) ==
    /\ Len(f.args) = 2
    /\ Fits(v, f.args[1])
    /\ Fits(v, f.args[2])
    /\ f.args[1].v + f.args[2].v \in NativeRange(v)

\* The user-facing "bad call signature" category is the host's TypeError.
BadCallSignature(f) == f.ret = NULL /\ f.exc = "TypeError"

\* The first argument position, of a two-argument call, that does not convert.
FirstBad(v, f) == IF ~Fits(v, f.args[1]) THEN 1 ELSE 2

\* The error the host reports for the argument x failing to convert.
ErrorFor(v, x) ==
    IF RawCAPI(v) /\ x.t = "int" THEN "OverflowError" ELSE "TypeError"

\* No value reaches the native function other than the caller's own,
\* unaltered, representable arguments.
DecodedFaithfully(v, f) ==
    \A i \in 1..Len(f.dec) : Fits(v, f.args[i]) /\ f.dec[i] = f.args[i].v

\* ----------------------------------------------------------------------- C1
\* C1: in every variant, a finished call add(a, b) with a, b and a + b all
\* representable in the declared native type has returned the host int a + b
\* exactly, with no error set.
C1_AddExact ==
    \A t \in Threads :
        LET f == frames[t] IN
        (Done(f) /\ ValidCall(variant, f)) =>
            /\ f.ret = PyInt(f.args[1].v + f.args[2].v)
            /\ f.exc = NoExc

C1_Witness ==
    \E t \in Threads :
        LET f == frames[t] IN
        /\ Done(f) /\ ValidCall(variant, f)
        /\ f.args[1].v > 0 /\ f.args[2].v < 0
        /\ f.ret = PyInt(f.args[1].v + f.args[2].v)

\* ----------------------------------------------------------------------- C2
\* C2: a finished call whose two arguments both decode but whose sum is not
\* representable in the declared native result type has reported an error
\* (a result-encoding failure) and returned no value.
C2_OverflowReported ==
    \A t \in Threads :
        LET f == frames[t] IN
        (/\ Done(f) /\ Len(f.args) = 2
         /\ Fits(variant, f.args[1]) /\ Fits(variant, f.args[2])
         /\ f.args[1].v + f.args[2].v \notin NativeRange(variant)) =>
            /\ f.ret = NULL
            /\ f.exc # NoExc

\* ----------------------------------------------------------------------- C3
\* C3: a call with any number of arguments other than two never converts an
\* argument, never reaches the native function, and ends with the
\* bad-call-signature error.
C3_BadArity ==
    \A t \in Threads :
        LET f == frames[t] IN
        (Called(f) /\ Len(f.args) # 2) =>
            /\ f.pc \in {"parse", "done"}
            /\ f.dec = <<>>
            /\ ~NativeRan(f)
            /\ (Done(f) => BadCallSignature(f))

C3_Witness ==
    \E t \in Threads :
        LET f == frames[t] IN
        Done(f) /\ Len(f.args) > 2 /\ BadCallSignature(f) /\ ~NativeRan(f)

ConfiguredName(v) == IF RawCAPI(v) THEN "_add_module" ELSE MODULE_NAME
ConfiguredDoc(v) == IF RawCAPI(v) THEN docstring ELSE "Module for adding integers"

C7_FailureLeavesModuleUsable ==
    [][ /\ (frames' # frames => modules' = modules)
        /\ \A t \in Threads :
              Done(frames[t]) =>
                 \/ frames'[t] = frames[t]
                 \/ frames'[t].pc = "idle"
        /\ \A t \in Threads :
              LET f == frames'[t] IN
              (failedBefore' /\ Done(f) /\ ValidCall(variant, f)) =>
                 /\ f.ret = PyInt(f.args[1].v + f.args[2].v)
                 /\ f.exc = NoExc ]_vars

C7_Witness ==
    /\ failedBefore
    /\ Len(modules) >= 1
    /\ \E t \in Threads :
          LET f == frames[t] IN
          /\ Done(f) /\ ValidCall(variant, f)
          /\ f.ret = PyInt(f.args[1].v + f.args[2].v)
          /\ f.exc = NoExc

\* ----------------------------------------------------------------------- C8
\* The outcomes <<returned value, error>> of the call add(*args) run alone.
SoloOutcomes(v, args) ==
    IF ~ArityOK(Len(args)) THEN {<<NULL, "TypeError">>}
    ELSE LET c1 == Convert(v, args[1]) IN
         IF ~c1.ok THEN {<<NULL, c1.exc>>}
         ELSE LET c2 == Convert(v, args[2]) IN
              IF ~c2.ok THEN {<<NULL, c2.exc>>}
              ELSE {<<PyLong_FromLong(r), NoExc>> : r \in NativeAddOf(v, c1.val, c2.val)}

\* C8: under any interleaving of invocations, every finished invocation has
\* an outcome it can produce when run alone on its own arguments, every
\* value an invocation has decoded is its own argument, and two finished
\* invocations of identical arguments on which the native addition is
\* defined have identical outcomes.
C8_NoInterference ==
    /\ \A t \in Threads :
          LET f == frames[t] IN
          /\ \A i \in 1..Len(f.dec) : f.dec[i] = f.args[i].v
          /\ (Done(f) => <<f.ret, f.exc>> \in SoloOutcomes(variant, f.args))
    /\ \A t, u \in Threads :
          (/\ Done(frames[t]) /\ Done(frames[u])
           /\ frames[t].args = frames[u].args
           /\ Cardinality(SoloOutcomes(variant, frames[t].args)) = 1) =>
              /\ frames[t].ret = frames[u].ret
              /\ frames[t].exc = frames[u].exc

C8_Witness ==
    \E t, u \in Threads :
        /\ t # u
        /\ Done(frames[t]) /\ Done(frames[u])
        /\ frames[t].args = <<PyInt(1), PyInt(2)>>
        /\ frames[u].args = <<PyInt(-1), PyInt(1)>>
        /\ frames[t].ret = PyInt(3)
        /\ frames[u].ret = PyInt(0)

\* ----------------------------------------------------------------------- C9
\* C9: a run of the initialisation entry point leaves every module object of
\* an earlier run as it was, and all module objects carry the same name, the
\* same documentation string and the same single binding `add`.
C9_RegisterIdempotent ==
    [][ /\ Len(modules') >= Len(modules)
        /\ \A i \in 1..Len(modules) : modules'[i] = modules[i]
        /\ \A i, j \in 1..Len(modules') :
              /\ modules'[i].name = modules'[j].name
              /\ modules'[i].doc = modules'[j].doc
              /\ modules'[i].methods = modules'[j].methods
              /\ Len(modules'[i].methods) = 1
              /\ modules'[i].methods[1].name = "add" ]_vars

C9_Witness ==
    /\ Len(modules) >= 2
    /\ modules[2].name = modules[1].name
    /\ modules[2].doc = modules[1].doc
    /\ Len(modules[1].methods) = 1

\* ---------------------------------------------------------------------- C10
\* C10: within one invocation the k-th event is the conversion of argument k
\* (k = 1, 2); a failed conversion is the last event and its error, that of
\* the first argument that does not convert, is the call's outcome; the
\* native function runs at most once, as the third event, on exactly the two
\* decoded arguments in order; the result is encoded only as the fourth
\* event, after the native run; no outcome is visible before the call is
\* finished, and a finished call has either a value and no error or an error
\* and no value.
C10_StepOrder ==
    \A t \in Threads :
        LET f == frames[t]
            tr == f.trace
            n == Len(f.trace)
        IN
        Called(f) =>
          /\ n <= 4
          /\ \A i \in 1..n :
                /\ (tr[i].ev = "decode") = (i <= 2)
                /\ (tr[i].ev = "native") = (i = 3)
                /\ (tr[i].ev = "encode") = (i = 4)
          /\ \A i \in 1..n :
                tr[i].ev = "decode" =>
                   /\ tr[i].p = i
                   /\ (tr[i].q = 1) = Fits(variant, f.args[i])
                   /\ (tr[i].q = 0 =>
                         /\ i = n
                         /\ Done(f)
                         /\ i = FirstBad(variant, f)
                         /\ f.ret = NULL
                         /\ f.exc = ErrorFor(variant, f.args[i]))
          /\ (n >= 3 =>
                /\ Len(f.args) = 2
                /\ tr[1].q = 1 /\ tr[2].q = 1
                /\ tr[3].p = f.args[1].v
                /\ tr[3].q = f.args[2].v)
          /\ (n = 4 => Done(f) /\ f.ret = PyInt(tr[4].p) /\ f.res = <<tr[4].p>>)
          /\ (~Done(f) => f.ret = NULL /\ f.exc = NoExc)
          /\ (Done(f) =>
                \/ (f.ret # NULL /\ f.ret.t = "int" /\ f.exc = NoExc /\ n = 4)
                \/ (f.ret = NULL /\ f.exc # NoExc /\ n < 3))

C10_Witness ==
    \E t \in Threads :
        LET f == frames[t] IN
        /\ Done(f) /\ Len(f.args) = 2 /\ RawCAPI(variant)
        /\ f.args[1].t = "int" /\ ~Fits(variant, f.args[1])
        /\ f.args[2].t = "str"
        /\ f.exc = "OverflowError"
        /\ Len(f.trace) = 1

====
